---- MODULE Spec2Model ----
(***************************************************************************)
(* Fullscreen / window-chrome transition core of the macOS window backend  *)
(* (src/platform_impl/macos/window.rs).                                    *)
(*                                                                         *)
(* The shared state (SharedState, behind a mutex), the native window, the  *)
(* application presentation options and the captured displays are the      *)
(* state.  set_fullscreen is split where the code drops the mutex, so that *)
(* calls from two threads and the delegate callbacks interleave as they do *)
(* in the program.  Blocks handed to the main queue (the *_async helpers)  *)
(* are kept in a FIFO and run on the main thread.                          *)
(***************************************************************************)
EXTENDS Integers, Sequences, FiniteSets, TLC

\* ---------------------------------------------------------------- bounds
MaxQueue == 3      \* blocks waiting on the main queue when a call may start
MaxCalls == 3      \* caller-initiated operations explored per behaviour

\* ----------------------------------------------------------- environment
Monitors == {1, 2}
Threads == {"main", "worker"}

\* NSWindowStyleMask bits used by the code
Titled == "Titled"
Closable == "Closable"
Miniaturizable == "Miniaturizable"
Resizable == "Resizable"
StyleBits == {Titled, Closable, Miniaturizable, Resizable}

\* Option<Fullscreen>: None | Borderless(Option<monitor>) | Exclusive(video mode)
\* monitor = 0 in Borderless stands for Borderless(None).
NoFullscreen == [kind |-> "None", monitor |-> 0]
Borderless(m) == [kind |-> "Borderless", monitor |-> m]
Exclusive(m) == [kind |-> "Exclusive", monitor |-> m]
Modes == {NoFullscreen} \cup {Borderless(m) : m \in Monitors \cup {0}}
            \cup {Exclusive(m) : m \in Monitors}

\* Option<T> as a sequence of length 0 or 1
NoneOpt == << >>
Some(v) == << v >>
IsSome(o) == Len(o) = 1
Unwrap(o) == o[1]

\* NSApplicationPresentationOptions
\* ExclusivePresentation with the dock and the menu bar only auto-hidden.
ExclusivePresentation_AutoHide == {"FullScreen", "AutoHideDock", "AutoHideMenuBar"}

ExclusivePresentation == {"FullScreen", "HideDock", "HideMenuBar"}
DefaultFullscreenPresentation == {"FullScreen", "AutoHideDock", "AutoHideMenuBar"}
SimplePresentation == {"AutoHideDock", "AutoHideMenuBar"}
\* NSApplicationPresentationDefault, the options of an application that set none
UserPresentation == {}

VARIABLES
    shared,        \* SharedState, guarded by the mutex
    decorations,   \* UnownedWindow.decorations (AtomicBool)
    window,        \* the NSWindow: styleMask, screen, level, zoomed, frame, movable
    app,           \* NSApp presentationOptions
    captured,      \* displays captured by CGDisplayCapture and not released
    displayMode,   \* per monitor: "desktop" or "custom" (CGDisplaySetDisplayMode)
    queue,         \* blocks on the main dispatch queue, FIFO
    os,            \* the native fullscreen machinery of the OS
    pc,            \* per thread: position inside set_fullscreen
    arg,           \* per thread: the `fullscreen` argument of the running call
    old,           \* per thread: the local `old_fullscreen`
    log,           \* per thread: commands issued by its latest call
    call,          \* per thread: the latest call, the mode it asked for and the
                   \* state it saw at entry
    alive,         \* FALSE once the UnownedWindow has been dropped
    ncalls,        \* caller-initiated operations so far
    trip,          \* history: the chrome seen when Borderless was entered from
                   \* a settled windowed state, and how far that round trip got
    swap,          \* history: the presentation options and window level seen
                   \* when a Borderless<->Exclusive switch was requested in a
                   \* settled fullscreen state, and whether the switch back is done
    hist,          \* history: chrome requests stored while fullscreen and the
                   \* restoration that followed; the window as it was when
                   \* simple fullscreen was entered and whether it was left
    locks,         \* per thread: what its latest operation did with the
                   \* shared-state mutex, in order ("lock", "unlock")
    session        \* history: the presentation options saved by a switch from
                   \* Borderless to Exclusive since the fullscreen field was
                   \* last None (none when there was no such switch)

vars == << shared, decorations, window, app, captured, displayMode, queue, os,
           pc, arg, old, log, call, alive, ncalls, trip, swap, hist, locks, session >>

\* ------------------------------------------------------------- helpers
\* A block handed to the main dispatch queue by one of the util::*_async helpers.
Block(c, m, mask, b) == [c |-> c, mon |-> m, mask |-> mask, b |-> b]

\* A command as the caller issued it: whether the shared-state mutex was held
\* and whether in_fullscreen_transition was set at that moment.
Issued(c, m, locked) ==
    [c |-> c, mon |-> m, locked |-> locked,
     trans |-> shared.in_fullscreen_transition]

\* The main thread is not inside a call, a callback or UnownedWindow::new
\* (during which no other thread has the window yet).
MainIdle == pc["main"] = "idle" /\ pc["worker"] # "waiting"
QueueRoom == Len(queue) < MaxQueue
\* Caller-initiated operations run on the worker thread; the main thread runs
\* the delegate callbacks, the queued blocks and the replay of a deferred
\* request.  A call made on the main thread behaves like a worker call during
\* which the main thread does nothing else.
Caller == "worker"
MayCall(t) == alive /\ t = Caller /\ pc[t] = "idle" /\ ncalls < MaxCalls /\ QueueRoom

\* create_window: the style mask of a new window
InitialMask(decorated, resizable) ==
    LET base == IF ~decorated THEN {Resizable, Miniaturizable}
                ELSE {Closable, Miniaturizable, Resizable, Titled}
    IN  IF resizable THEN base ELSE base \ {Resizable}

\* From<WindowAttributes> for SharedState
InitialShared(resizable, maximized) ==
    [resizable |-> resizable,
     fullscreen |-> NoFullscreen,
     in_fullscreen_transition |-> FALSE,
     target_fullscreen |-> NoneOpt,
     maximized |-> maximized,
     standard_frame |-> NoneOpt,
     is_simple_fullscreen |-> FALSE,
     saved_style |-> NoneOpt,
     save_presentation_opts |-> NoneOpt]

NoCall == [op |-> "none", outcome |-> "none", slot |-> NoneOpt, mode |-> NoFullscreen]

NoTrip == [stage |-> "none", resizable |-> FALSE, decorations |-> FALSE,
           maximized |-> FALSE, zoomed |-> FALSE, styleMask |-> {}]

NoHist == [cstage |-> "none", cres |-> FALSE, cdec |-> FALSE,
           sstage |-> "none", sframe |-> "windowed", smask |-> {}, sapp |-> {}]

\* hist without its chrome part / without its simple-fullscreen part
NoChrome(h) == [h EXCEPT !.cstage = "none", !.cres = FALSE, !.cdec = FALSE]
NoSimple(h) == [h EXCEPT !.sstage = "none", !.sframe = "windowed",
                         !.smask = {}, !.sapp = {}]

NoSwap == [from |-> "none", back |-> FALSE, app |-> {}, level |-> "normal"]

\* create_window (240-242) and set_always_on_top (1069-1073): the window level
LevelFor(always_on_top) == IF always_on_top THEN "floating" ELSE "normal"

Init ==
    \E resizable \in BOOLEAN, decorated \in BOOLEAN, always_on_top \in BOOLEAN :
        /\ shared = InitialShared(resizable, FALSE)
        /\ decorations = decorated
        /\ window = [styleMask |-> InitialMask(decorated, resizable),
                     screen |-> 1, level |-> LevelFor(always_on_top),
                     zoomed |-> FALSE,
                     frame |-> "windowed", movable |-> TRUE]
        /\ app = UserPresentation
        /\ captured = {}
        /\ displayMode = [m \in Monitors |-> "desktop"]
        /\ queue = << >>
        /\ os = [phase |-> "idle", native |-> FALSE, entering |-> FALSE,
                 requested |-> FALSE]
        /\ pc = [t \in Threads |-> "idle"]
        /\ arg = [t \in Threads |-> NoFullscreen]
        /\ old = [t \in Threads |-> NoFullscreen]
        /\ log = [t \in Threads |-> << >>]
        /\ call = [t \in Threads |-> NoCall]
        /\ alive = TRUE
        /\ ncalls = 0
        /\ trip = NoTrip
        /\ swap = NoSwap
        /\ hist = NoHist
        /\ locks = [t \in Threads |-> << >>]
        /\ session = NoneOpt

\* The window is plainly windowed and nothing is under way: no call is
\* running, no block is queued and the OS is not animating.
Settled ==
    /\ alive
    /\ \A t \in Threads : pc[t] = "idle"
    /\ queue = << >>
    /\ os.phase = "idle" /\ ~os.native
    /\ shared.fullscreen.kind = "None"
    /\ ~shared.in_fullscreen_transition /\ ~shared.is_simple_fullscreen
    /\ shared.target_fullscreen = NoneOpt

\* The window is in native fullscreen and nothing else is under way: only
\* thread t may be inside a call, no block is queued, the OS is not animating.
SettledFullscreen(t) ==
    /\ alive
    /\ \A u \in Threads \ {t} : pc[u] = "idle"
    /\ queue = << >>
    /\ os.phase = "idle" /\ os.native
    /\ shared.fullscreen.kind # "None"
    /\ ~shared.in_fullscreen_transition
    /\ shared.target_fullscreen = NoneOpt

\* A request that switches between Borderless and Exclusive.
IsSwitch(o, m) ==
    \/ (o.kind = "Borderless" /\ m.kind = "Exclusive")
    \/ (o.kind = "Exclusive" /\ m.kind = "Borderless")

\* ------------------------------------------------------------ the mutex
\* One critical section: the guard is taken and dropped (lock_shared_state,
\* 476-482; the guard unlocks when it goes out of scope).
LockUnlock == << "lock", "unlock" >>

\* CheckLocks without the drop of the guard at line 847.
CheckLocks_NoDrop(outcome) ==
    IF outcome = "accepted" THEN << "lock" >> ELSE LockUnlock

\* set_fullscreen, 833-847: the guard taken at 833 is dropped by each early
\* return and, for an accepted request, by the drop at 847.
CheckLocks(outcome) == LockUnlock

\* set_fullscreen, 896-902: the presentation options are saved under a guard
\* of their own when Exclusive is requested from Borderless.
SaveLocks(o, m) ==
    IF m.kind = "Exclusive" /\ o.kind = "Borderless" THEN LockUnlock ELSE << >>

\* set_fullscreen, 951-1022: the guard is held to the end of the function.
RecordLocks == LockUnlock

\* restore_state_from_fullscreen, 773-780.
RestoreLocks == LockUnlock

\* set_resizable, 621-625.
ResizableLocks == LockUnlock

\* set_decorations, 1026-1035: the state is locked only when the flag changes.
DecorationsLocks(changed) == IF changed THEN LockUnlock ELSE << >>

\* set_simple_fullscreen, 1193-1272: one guard, held on every return path.
SimpleFullscreenLocks == LockUnlock

\* fullscreen(), 821-824.
FullscreenLocks == LockUnlock

\* ------------------------------------------------------- set_fullscreen
\* CheckOutcome without the comparison with the current mode (844-846).
CheckOutcome_NoEqualityCheck(m) ==
    IF shared.is_simple_fullscreen THEN "rejected"
    ELSE IF shared.in_fullscreen_transition THEN "deferred"
    ELSE "accepted"

\* CheckOutcome with the transition test made before the simple-fullscreen test.
CheckOutcome_TransitionFirst(m) ==
    IF shared.in_fullscreen_transition THEN "deferred"
    ELSE IF shared.is_simple_fullscreen THEN "rejected"
    ELSE IF m = shared.fullscreen THEN "noop"
    ELSE "accepted"

\* CheckOutcome without the simple-fullscreen test (834-836).
CheckOutcome_NoSimpleCheck(m) ==
    IF shared.in_fullscreen_transition THEN "deferred"
    ELSE IF m = shared.fullscreen THEN "noop"
    ELSE "accepted"

\* CheckOutcome deferring, instead of returning, a request for the current mode.
CheckOutcome_DeferEqual(m) ==
    IF shared.is_simple_fullscreen THEN "rejected"
    ELSE IF shared.in_fullscreen_transition \/ m = shared.fullscreen THEN "deferred"
    ELSE "accepted"

\* Lines 833-847: what the call decides under the first lock.
CheckOutcome(m) ==
    IF shared.is_simple_fullscreen THEN "rejected"
    ELSE IF shared.in_fullscreen_transition THEN "deferred"
    ELSE IF m = shared.fullscreen THEN "noop"
    ELSE "accepted"

\* Defer keeping an earlier deferred value: the first writer wins.
Defer_KeepEarlier(m) ==
    IF IsSome(shared.target_fullscreen) THEN shared
    ELSE [shared EXCEPT !.target_fullscreen = Some(m)]

\* Line 840: the deferred request overwrites the slot.
Defer(m) == [shared EXCEPT !.target_fullscreen = Some(m)]

\* The first critical section of set_fullscreen(m) on thread t.
set_fullscreen_check(t, m) ==
    LET outcome == CheckOutcome(m) IN
    /\ call' = [call EXCEPT ![t] =
                   [op |-> "set_fullscreen", outcome |-> outcome,
                    slot |-> shared.target_fullscreen, mode |-> m]]
    /\ log' = [log EXCEPT ![t] = << >>]
    /\ arg' = [arg EXCEPT ![t] = IF outcome = "accepted" THEN m ELSE NoFullscreen]
    /\ shared' = IF outcome = "deferred" THEN Defer(m) ELSE shared
    /\ old' = [old EXCEPT ![t] =
                  IF outcome = "accepted" THEN shared.fullscreen ELSE NoFullscreen]
    /\ pc' = [pc EXCEPT ![t] =
                  IF outcome = "accepted" THEN "sf_prepare" ELSE "idle"]
    /\ trip' = IF outcome # "accepted" THEN trip
               ELSE IF Settled /\ m.kind = "Borderless"
               THEN [stage |-> "requested", resizable |-> shared.resizable,
                     decorations |-> decorations, maximized |-> shared.maximized,
                     zoomed |-> window.zoomed, styleMask |-> window.styleMask]
               ELSE IF trip.stage = "entered" /\ m.kind = "None" THEN trip
               ELSE NoTrip
    /\ swap' = IF outcome # "accepted" THEN swap
               ELSE IF ~IsSwitch(shared.fullscreen, m) THEN NoSwap
               ELSE IF swap.from = m.kind /\ ~swap.back THEN swap
               ELSE IF SettledFullscreen(t)
               THEN [from |-> shared.fullscreen.kind, back |-> FALSE,
                     app |-> app, level |-> window.level]
               ELSE NoSwap
    /\ hist' = IF outcome = "accepted" THEN NoSimple(hist) ELSE hist
    /\ locks' = [locks EXCEPT ![t] = CheckLocks(outcome)]
    /\ UNCHANGED session

\* A caller invokes set_fullscreen(m) on thread t.
SetFullscreen(t, m) ==
    /\ MayCall(t)
    /\ set_fullscreen_check(t, m)
    /\ ncalls' = ncalls + 1
    /\ UNCHANGED << decorations, window, app, captured, displayMode, queue,
                    os, alive >>

\* set_fullscreen re-invoked by the delegate with the deferred value.
SetFullscreenReplay ==
    /\ pc["main"] = "sf_check"
    /\ set_fullscreen_check("main", arg["main"])
    /\ UNCHANGED << decorations, window, app, captured, displayMode, queue,
                    os, alive, ncalls >>

\* The call on thread t returns (or unwinds): its locals are gone.
Return(t) ==
    /\ pc' = [pc EXCEPT ![t] = "idle"]
    /\ arg' = [arg EXCEPT ![t] = NoFullscreen]
    /\ old' = [old EXCEPT ![t] = NoFullscreen]

\* The call on thread t goes on to its next section.
Goto(t, label) ==
    /\ pc' = [pc EXCEPT ![t] = label]
    /\ UNCHANGED << arg, old >>

\* Lines 852-865: the screen the requested mode is on.
NewScreen(m) ==
    IF m.kind = "Borderless" /\ m.monitor = 0 THEN window.screen ELSE m.monitor

\* NeedsMove without the comparison of the two screens.
NeedsMove_Always(m) == m.kind # "None"

\* Lines 867-876: the window is moved only when the screens differ.
NeedsMove(m) == m.kind # "None" /\ window.screen # NewScreen(m)

\* FadeInCommands issuing the fade-in and the release whatever the token is.
FadeInCommands_Unconditional(fadeOk, d) ==
    << Issued("fade_in", d, FALSE), Issued("release_fade", d, FALSE) >>

\* Lines 907-920: the fade to black, made only when the reservation succeeded.
FadeOutCommands(fadeOk, d) ==
    IF fadeOk THEN << Issued("fade_out", d, FALSE) >> ELSE << >>

\* Lines 935-947: the fade back in and the release of the reservation, made
\* only with a valid token.
FadeInCommands(fadeOk, d) ==
    IF fadeOk THEN << Issued("fade_in", d, FALSE), Issued("release_fade", d, FALSE) >>
    ELSE << >>

\* Lines 849-949, run without the lock: the move to the target monitor and,
\* for Exclusive, the fade, the display capture and the video-mode switch.
\* A failed capture or mode switch fails the assertion: the call unwinds.
SetFullscreenPrepare(t) ==
    /\ pc[t] = "sf_prepare"
    /\ LET m == arg[t]
           move == IF NeedsMove(m)
                   THEN << Block("set_frame_top_left_point", NewScreen(m), {}, FALSE) >>
                   ELSE << >>
           moveLog == IF NeedsMove(m)
                      THEN << Issued("set_frame_top_left_point", NewScreen(m), FALSE) >>
                      ELSE << >>
       IN
       /\ queue' = queue \o move
       /\ IF m.kind # "Exclusive"
          THEN /\ log' = [log EXCEPT ![t] = @ \o moveLog]
               /\ Goto(t, "sf_record")
               /\ UNCHANGED << shared, captured, displayMode, call >>
          ELSE \E fadeOk \in BOOLEAN, captureOk \in BOOLEAN, modeOk \in BOOLEAN :
               LET d == m.monitor
                   fadeOut == FadeOutCommands(fadeOk, d)
                   fadeIn == FadeInCommands(fadeOk, d)
               IN
               /\ shared' = IF old[t].kind = "Borderless"
                            THEN [shared EXCEPT !.save_presentation_opts = Some(app)]
                            ELSE shared
               /\ IF ~captureOk
                  THEN /\ log' = [log EXCEPT ![t] =
                                     @ \o moveLog \o fadeOut \o << Issued("panic", d, FALSE) >>]
                       /\ Return(t)
                       /\ call' = [call EXCEPT ![t].outcome = "panicked"]
                       /\ UNCHANGED << captured, displayMode >>
                  ELSE IF ~modeOk
                  THEN /\ captured' = captured \cup {d}
                       /\ log' = [log EXCEPT ![t] =
                                     @ \o moveLog \o fadeOut
                                       \o << Issued("capture", d, FALSE),
                                             Issued("panic", d, FALSE) >>]
                       /\ Return(t)
                       /\ call' = [call EXCEPT ![t].outcome = "panicked"]
                       /\ UNCHANGED displayMode
                  ELSE /\ captured' = captured \cup {d}
                       /\ displayMode' = [displayMode EXCEPT ![d] = "custom"]
                       /\ log' = [log EXCEPT ![t] =
                                     @ \o moveLog \o fadeOut
                                       \o << Issued("capture", d, FALSE),
                                             Issued("set_display_mode", d, FALSE) >>
                                       \o fadeIn]
                       /\ Goto(t, "sf_record")
                       /\ UNCHANGED call
    /\ locks' = [locks EXCEPT ![t] = @ \o SaveLocks(old[t], arg[t])]
    /\ UNCHANGED << decorations, window, app, os, alive, ncalls, trip, swap, hist,
                    session >>

\* Lines 954-1021: the handler chosen by the pair (old_fullscreen, fullscreen).
TransitionArm(o, m) ==
    IF o.kind = "None" /\ m.kind # "None" THEN "enter"
    ELSE IF o.kind = "Borderless" /\ m.kind = "None" THEN "exit_borderless"
    ELSE IF o.kind = "Exclusive" /\ m.kind = "None" THEN "exit_exclusive"
    ELSE IF o.kind = "Borderless" /\ m.kind = "Exclusive" THEN "borderless_to_exclusive"
    ELSE IF o.kind = "Exclusive" /\ m.kind = "Borderless" THEN "exclusive_to_borderless"
    ELSE "catch_all"

\* ArmBlocks with the toggle queued twice when fullscreen is entered.
ArmBlocks_DoubleToggle(o, m) ==
    LET arm == TransitionArm(o, m)
        toggle == Block("toggle_full_screen", 0, {}, o.kind = "None")
        restore == Block("restore_display_mode", o.monitor, {}, FALSE)
    IN  IF arm = "enter" THEN << toggle, toggle >>
        ELSE IF arm = "exit_borderless" THEN << toggle >>
        ELSE IF arm = "exit_exclusive" THEN << restore, toggle >>
        ELSE IF arm = "exclusive_to_borderless" THEN << restore >>
        ELSE << >>

\* ArmBlocks with a native toggle queued by the Borderless<->Exclusive switches.
ArmBlocks_ToggleOnSwitch(o, m) ==
    LET arm == TransitionArm(o, m)
        toggle == Block("toggle_full_screen", 0, {}, o.kind = "None")
        restore == Block("restore_display_mode", o.monitor, {}, FALSE)
    IN  IF arm \in {"enter", "exit_borderless", "borderless_to_exclusive"}
        THEN << toggle >>
        ELSE IF arm = "exit_exclusive" THEN << restore, toggle >>
        ELSE IF arm = "exclusive_to_borderless" THEN << restore, toggle >>
        ELSE << >>

\* Blocks queued by the chosen handler, in the order the code queues them.
\* The toggle block carries old_fullscreen.is_none().
ArmBlocks(o, m) ==
    LET arm == TransitionArm(o, m)
        toggle == Block("toggle_full_screen", 0, {}, o.kind = "None")
        restore == Block("restore_display_mode", o.monitor, {}, FALSE)
    IN  IF arm \in {"enter", "exit_borderless"} THEN << toggle >>
        ELSE IF arm = "exit_exclusive" THEN << restore, toggle >>
        ELSE IF arm = "exclusive_to_borderless" THEN << restore >>
        ELSE << >>

\* RestoredPresentation leaving the exclusive options in place.
RestoredPresentation_KeepExclusive == ExclusivePresentation

\* Lines 1006-1011: the options applied when going back to Borderless.
RestoredPresentation ==
    IF IsSome(shared.save_presentation_opts)
    THEN Unwrap(shared.save_presentation_opts)
    ELSE DefaultFullscreenPresentation

\* Line 952: the new mode is recorded.
RecordMode(m) == [shared EXCEPT !.fullscreen = m]

\* Lines 951-1022: the second critical section; the lock is held to the end.
SetFullscreenRecord(t) ==
    /\ pc[t] = "sf_record"
    /\ LET m == arg[t]
           o == old[t]
           arm == TransitionArm(o, m)
           blocks == ArmBlocks(o, m)
           recorded == RecordMode(m)
       IN
       /\ queue' = queue \o blocks
       /\ shared' = IF arm = "borderless_to_exclusive"
                    THEN [recorded EXCEPT !.save_presentation_opts = Some(app)]
                    ELSE recorded
       /\ app' = IF arm = "borderless_to_exclusive" THEN ExclusivePresentation
                 ELSE IF arm = "exclusive_to_borderless" THEN RestoredPresentation
                 ELSE app
       /\ window' = IF arm = "borderless_to_exclusive"
                    THEN [window EXCEPT !.level = "shielding+1"]
                    ELSE IF arm = "exclusive_to_borderless"
                    THEN [window EXCEPT !.level = "normal"]
                    ELSE window
       /\ log' = [log EXCEPT ![t] =
                     @ \o [i \in 1..Len(blocks) |->
                              Issued(blocks[i].c, blocks[i].mon, TRUE)]
                       \o (IF arm \in {"borderless_to_exclusive", "exclusive_to_borderless"}
                           THEN << Issued("set_presentation_options", 0, TRUE),
                                   Issued("set_level", 0, TRUE) >>
                           ELSE << >>)]
       /\ call' = [call EXCEPT ![t].outcome = "done"]
       /\ Return(t)
    /\ trip' = IF trip.stage = "requested" THEN [trip EXCEPT !.stage = "entered"]
               ELSE trip
    /\ swap' = IF IsSwitch(old[t], arg[t]) /\ swap.from = arg[t].kind
               THEN [swap EXCEPT !.back = TRUE]
               ELSE swap
    /\ UNCHANGED hist
    /\ locks' = [locks EXCEPT ![t] = @ \o RecordLocks]
    /\ session' = IF TransitionArm(old[t], arg[t]) = "borderless_to_exclusive"
                  THEN Some(app)
                  ELSE IF arg[t].kind = "None" \/ old[t].kind = "None" THEN NoneOpt
                  ELSE session
    /\ UNCHANGED << decorations, captured, displayMode, os, alive, ncalls >>

\* ----------------------------------------------- chrome: zoom and restore
RequiredForZoom == {Titled, Resizable}

\* is_zoomed (735-755): a window lacking Titled|Resizable gets them for the
\* query (synchronously) and the previous mask is put back asynchronously.
NeedsTempMask == ~(RequiredForZoom \subseteq window.styleMask)
ZoomQueryMask == IF NeedsTempMask THEN RequiredForZoom ELSE window.styleMask
ZoomQueryBlocks ==
    IF NeedsTempMask THEN << Block("set_style_mask", 0, window.styleMask, FALSE) >>
    ELSE << >>

\* set_maximized (805-818): nothing is queued when the zoom state matches.
MaximizeBlocks(maximized) ==
    IF window.zoomed = maximized THEN << >>
    ELSE << Block("set_maximized", 0, {}, maximized) >>

\* SavedStyleMask clearing the resizable bit whatever the shared state says.
SavedStyleMask_DropResizable(st, current) ==
    LET base == IF IsSome(st.saved_style) THEN Unwrap(st.saved_style) ELSE current
    IN  base \ {Resizable}

\* saved_style (757-767): the saved mask (taken) or the current one, with
\* the resizable bit taken from the shared state.
SavedStyleMask(st, current) ==
    LET base == IF IsSome(st.saved_style) THEN Unwrap(st.saved_style) ELSE current
    IN  IF st.resizable THEN base \cup {Resizable} ELSE base \ {Resizable}

\* RestoredShared leaving saved_style in place (the mask is read, not taken).
RestoredShared_KeepSavedStyle(st) == [st EXCEPT !.fullscreen = NoFullscreen]

\* restore_state_from_fullscreen (772-784): shared state after the locked part.
RestoredShared(st) == [st EXCEPT !.fullscreen = NoFullscreen, !.saved_style = NoneOpt]

\* restore_state_from_fullscreen: the blocks it queues, in order.
RestoreBlocks(st) ==
    << Block("set_style_mask", 0, SavedStyleMask(st, window.styleMask), FALSE) >>
        \o ZoomQueryBlocks \o MaximizeBlocks(st.maximized)

\* -------------------------------------------------- delegate completion
\* on_transition_will_begin: the transition is flagged as in flight.
on_transition_will_begin(st) == [st EXCEPT !.in_fullscreen_transition = TRUE]

\* on_transition_did_end, the part after the restoration: the flag is
\* cleared and the deferred slot is emptied.
on_transition_did_end(st) ==
    [st EXCEPT !.in_fullscreen_transition = FALSE, !.target_fullscreen = NoneOpt]

\* window:willUseFullScreenPresentationOptions: (referred to at 984-990): the
\* options the OS applies when the window enters native fullscreen; the menu
\* bar and the dock are disabled for an Exclusive mode.
will_use_fullscreen_presentation_options(st) ==
    IF st.fullscreen.kind = "Exclusive"
    THEN {"FullScreen", "HideDock", "HideMenuBar"}
    ELSE {"FullScreen", "AutoHideDock", "AutoHideMenuBar"}

\* The OS starts animating a native toggle and notifies the delegate.
BeginTransition(requested) ==
    /\ os' = [os EXCEPT !.phase = "animating", !.entering = ~os.native,
                        !.requested = requested]
    /\ shared' = IF alive THEN on_transition_will_begin(shared) ELSE shared
    /\ app' = IF alive /\ ~os.native
              THEN will_use_fullscreen_presentation_options(shared) ELSE app
    /\ swap' = NoSwap
    /\ hist' = IF hist.cstage = "restored" THEN NoHist ELSE NoSimple(hist)
    /\ locks' = IF alive THEN [locks EXCEPT !["main"] = LockUnlock] ELSE locks
    /\ UNCHANGED session

\* A transition that begins after a recorded round trip has ended is not part
\* of that round trip: the record is closed.
TripAtBegin == IF trip.stage = "restored" THEN NoTrip ELSE trip

\* The window's toggleFullScreen block reaches the head of the main queue.
RunToggleFullScreen ==
    /\ MainIdle
    /\ queue # << >> /\ Head(queue).c = "toggle_full_screen"
    /\ os.phase = "idle"
    /\ queue' = Tail(queue)
    /\ BeginTransition(TRUE)
    /\ trip' = TripAtBegin
    /\ UNCHANGED << decorations, window, captured, displayMode,
                    pc, arg, old, log, call, alive, ncalls >>

\* The user toggles native fullscreen from the window's own controls.
UserToggle ==
    /\ MainIdle /\ alive /\ QueueRoom /\ ncalls < MaxCalls
    /\ os.phase = "idle"
    /\ BeginTransition(FALSE)
    /\ ncalls' = ncalls + 1
    /\ trip' = TripAtBegin
    /\ UNCHANGED << decorations, window, captured, displayMode, queue,
                    pc, arg, old, log, call, alive >>

\* The OS finishes the animation and calls on_transition_did_end(entered):
\* on exit the chrome is restored first (restore_state_from_fullscreen), then
\* the flag is cleared and a deferred request is replayed through
\* set_fullscreen on the main thread.
DidEnd ==
    /\ MainIdle
    /\ os.phase = "animating"
    /\ os' = [os EXCEPT !.phase = "idle", !.native = os.entering,
                        !.requested = FALSE]
    /\ trip' = IF alive /\ ~os.entering /\ trip.stage = "entered"
               THEN [trip EXCEPT !.stage = "restored"] ELSE trip
    /\ IF ~alive
       THEN UNCHANGED << shared, window, queue, pc, arg >>
       ELSE LET exited == ~os.entering
                restored == IF exited THEN RestoredShared(shared) ELSE shared
            IN
            /\ shared' = on_transition_did_end(restored)
            /\ queue' = IF exited THEN queue \o RestoreBlocks(shared) ELSE queue
            /\ window' = IF exited THEN [window EXCEPT !.styleMask = ZoomQueryMask]
                         ELSE window
            /\ IF IsSome(shared.target_fullscreen)
               THEN /\ pc' = [pc EXCEPT !["main"] = "sf_check"]
                    /\ arg' = [arg EXCEPT !["main"] = Unwrap(shared.target_fullscreen)]
               ELSE UNCHANGED << pc, arg >>
    /\ hist' = IF alive /\ ~os.entering /\ hist.cstage = "stored"
               THEN [hist EXCEPT !.cstage = "restored"] ELSE hist
    /\ locks' = IF ~alive THEN locks
                ELSE [locks EXCEPT !["main"] =
                         (IF os.entering THEN << >> ELSE RestoreLocks) \o LockUnlock]
    /\ session' = IF alive /\ ~os.entering THEN NoneOpt ELSE session
    /\ UNCHANGED << decorations, app, captured, displayMode, old, log, call,
                    alive, ncalls, swap >>

\* ------------------------------------------------- main-queue blocks
RunSetStyleMask ==
    /\ MainIdle
    /\ queue # << >> /\ Head(queue).c = "set_style_mask"
    /\ queue' = Tail(queue)
    /\ window' = [window EXCEPT !.styleMask = Head(queue).mask]
    /\ UNCHANGED << shared, decorations, app, captured, displayMode, os,
                    pc, arg, old, log, call, alive, ncalls, trip, swap, hist, locks, session >>

RunSetFrameTopLeftPoint ==
    /\ MainIdle
    /\ queue # << >> /\ Head(queue).c = "set_frame_top_left_point"
    /\ queue' = Tail(queue)
    /\ window' = [window EXCEPT !.screen = Head(queue).mon]
    /\ UNCHANGED << shared, decorations, app, captured, displayMode, os,
                    pc, arg, old, log, call, alive, ncalls, trip, swap, hist, locks, session >>

\* restore_display_mode_async: the desktop mode comes back and the display
\* capture is released.
RunRestoreDisplayMode ==
    /\ MainIdle
    /\ queue # << >> /\ Head(queue).c = "restore_display_mode"
    /\ queue' = Tail(queue)
    /\ displayMode' = [displayMode EXCEPT ![Head(queue).mon] = "desktop"]
    /\ captured' = captured \ {Head(queue).mon}
    /\ UNCHANGED << shared, decorations, window, app, os,
                    pc, arg, old, log, call, alive, ncalls, trip, swap, hist, locks, session >>

\* set_maximized_async: the window is zoomed or unzoomed and the shared
\* maximized flag follows.
RunSetMaximized ==
    /\ MainIdle
    /\ queue # << >> /\ Head(queue).c = "set_maximized"
    /\ queue' = Tail(queue)
    /\ window' = [window EXCEPT !.zoomed = Head(queue).b]
    /\ shared' = IF alive THEN [shared EXCEPT !.maximized = Head(queue).b] ELSE shared
    /\ UNCHANGED << decorations, app, captured, displayMode, os,
                    pc, arg, old, log, call, alive, ncalls, trip, swap, hist, locks, session >>

\* set_level_async: the window takes the level.
RunSetLevel ==
    /\ MainIdle
    /\ queue # << >> /\ Head(queue).c = "set_level"
    /\ queue' = Tail(queue)
    /\ window' = [window EXCEPT !.level = LevelFor(Head(queue).b)]
    /\ UNCHANGED << shared, decorations, app, captured, displayMode, os,
                    pc, arg, old, log, call, alive, ncalls, trip, swap, hist, locks, session >>

RunClose ==
    /\ MainIdle
    /\ queue # << >> /\ Head(queue).c = "close"
    /\ queue' = Tail(queue)
    /\ UNCHANGED << shared, decorations, window, app, captured, displayMode, os,
                    pc, arg, old, log, call, alive, ncalls, trip, swap, hist, locks, session >>

\* ------------------------------------------------------ style mediator
\* set_resizable (620-635)
SetResizable(t, resizable) ==
    /\ MayCall(t)
    /\ ncalls' = ncalls + 1
    /\ shared' = [shared EXCEPT !.resizable = resizable]
    /\ LET mask == IF resizable THEN window.styleMask \cup {Resizable}
                   ELSE window.styleMask \ {Resizable}
           apply == shared.fullscreen.kind = "None"
       IN
       /\ queue' = IF apply THEN Append(queue, Block("set_style_mask", 0, mask, FALSE))
                   ELSE queue
       /\ log' = [log EXCEPT ![t] =
                     IF apply THEN << Issued("set_style_mask", 0, FALSE) >> ELSE << >>]
    /\ call' = [call EXCEPT ![t] =
                   [op |-> "set_resizable", outcome |-> "done", slot |-> NoneOpt, mode |-> NoFullscreen]]
    /\ locks' = [locks EXCEPT ![t] = ResizableLocks]
    /\ UNCHANGED session
    /\ trip' = NoTrip
    /\ UNCHANGED swap
    /\ hist' = IF shared.fullscreen.kind # "None" /\ hist.cstage # "restored"
               THEN [NoSimple(hist) EXCEPT !.cstage = "stored", !.cres = TRUE]
               ELSE NoHist
    /\ UNCHANGED << decorations, window, app, captured, displayMode, os,
                    pc, arg, old, alive >>

\* set_decorations (1025-1060): the mask built from `decorations` and `resizable`
DecorationMask(decorated, resizable) ==
    LET base == IF decorated THEN {Closable, Miniaturizable, Resizable, Titled}
                ELSE {Resizable}
    IN  IF resizable THEN base ELSE base \ {Resizable}

SetDecorations(t, decorated) ==
    /\ MayCall(t)
    /\ ncalls' = ncalls + 1
    /\ decorations' = decorated
    /\ LET apply == decorated # decorations /\ shared.fullscreen.kind = "None"
       IN
       /\ queue' = IF apply
                   THEN Append(queue, Block("set_style_mask", 0,
                                            DecorationMask(decorated, shared.resizable), FALSE))
                   ELSE queue
       /\ log' = [log EXCEPT ![t] =
                     IF apply THEN << Issued("set_style_mask", 0, FALSE) >> ELSE << >>]
    /\ call' = [call EXCEPT ![t] =
                   [op |-> "set_decorations", outcome |-> "done", slot |-> NoneOpt, mode |-> NoFullscreen]]
    /\ locks' = [locks EXCEPT ![t] = DecorationsLocks(decorated # decorations)]
    /\ UNCHANGED session
    /\ trip' = NoTrip
    /\ UNCHANGED swap
    /\ hist' = IF decorated = decorations THEN NoSimple(hist)
               ELSE IF shared.fullscreen.kind # "None" /\ hist.cstage # "restored"
               THEN [NoSimple(hist) EXCEPT !.cstage = "stored", !.cdec = TRUE]
               ELSE NoHist
    /\ UNCHANGED << shared, window, app, captured, displayMode, os,
                    pc, arg, old, alive >>

\* set_maximized (805-818), with the zoom query of is_zoomed
SetMaximized(t, maximized) ==
    /\ MayCall(t)
    /\ ncalls' = ncalls + 1
    /\ window' = [window EXCEPT !.styleMask = ZoomQueryMask]
    /\ queue' = queue \o ZoomQueryBlocks \o MaximizeBlocks(maximized)
    /\ log' = [log EXCEPT ![t] =
                  (IF NeedsTempMask
                   THEN << Issued("set_style_mask_sync", 0, FALSE),
                           Issued("set_style_mask", 0, FALSE) >>
                   ELSE << >>)
                  \o (IF window.zoomed = maximized THEN << >>
                      ELSE << Issued("set_maximized", 0, FALSE) >>)]
    /\ call' = [call EXCEPT ![t] =
                   [op |-> "set_maximized", outcome |-> IF window.zoomed = maximized THEN "noop" ELSE "done",
                    slot |-> NoneOpt, mode |-> NoFullscreen]]
    /\ trip' = NoTrip
    /\ UNCHANGED swap
    /\ hist' = NoHist
    /\ locks' = [locks EXCEPT ![t] = << >>]
    /\ UNCHANGED session
    /\ UNCHANGED << shared, decorations, app, captured, displayMode, os,
                    pc, arg, old, alive >>

\* set_always_on_top (1068-1075): the level is always set, asynchronously.
SetAlwaysOnTop(t, always_on_top) ==
    /\ MayCall(t)
    /\ ncalls' = ncalls + 1
    /\ queue' = Append(queue, Block("set_level", 0, {}, always_on_top))
    /\ log' = [log EXCEPT ![t] = << Issued("set_level", 0, FALSE) >>]
    /\ call' = [call EXCEPT ![t] =
                   [op |-> "set_always_on_top", outcome |-> "done", slot |-> NoneOpt, mode |-> NoFullscreen]]
    /\ locks' = [locks EXCEPT ![t] = << >>]
    /\ UNCHANGED session
    /\ swap' = NoSwap
    /\ UNCHANGED hist
    /\ UNCHANGED << shared, decorations, window, app, captured, displayMode, os,
                    pc, arg, old, alive, trip >>

\* fullscreen() (821-824): the field is read under the lock and returned;
\* nothing else changes.
Fullscreen(t) ==
    /\ alive /\ t = Caller /\ pc[t] = "idle"
    /\ locks' = [locks EXCEPT ![t] = FullscreenLocks]
    /\ UNCHANGED << shared, decorations, window, app, captured, displayMode,
                    queue, os, pc, arg, old, log, call, alive, ncalls, trip,
                    swap, hist, session >>

\* ---------------------------------------------------- simple fullscreen
\* contentRectForFrameRect: a titled window's content excludes the title bar.
ContentRect(frame, mask) ==
    IF frame = "windowed" /\ Titled \in mask THEN "windowed_content" ELSE frame

\* saved_standard_frame (315-318)
SavedStandardFrame(st) ==
    IF IsSome(st.standard_frame) THEN Unwrap(st.standard_frame) ELSE "default"

\* Lines 1201-1206: nothing happens when native fullscreen is active or the
\* requested state is the current one.
SimpleFullscreenRefused(fullscreen) ==
    \/ shared.fullscreen.kind # "None"
    \/ (fullscreen /\ shared.is_simple_fullscreen)
    \/ (~fullscreen /\ ~shared.is_simple_fullscreen)

\* set_simple_fullscreen (1192-1272); the lock is held throughout.
SetSimpleFullscreen(t, fullscreen) ==
    /\ MayCall(t)
    /\ ncalls' = ncalls + 1
    /\ IF SimpleFullscreenRefused(fullscreen)
       THEN /\ call' = [call EXCEPT ![t] =
                           [op |-> "set_simple_fullscreen", outcome |-> "false", slot |-> NoneOpt, mode |-> NoFullscreen]]
            /\ log' = [log EXCEPT ![t] = << >>]
            /\ UNCHANGED << shared, window, app, queue >>
       ELSE /\ call' = [call EXCEPT ![t] =
                           [op |-> "set_simple_fullscreen", outcome |-> "true", slot |-> NoneOpt, mode |-> NoFullscreen]]
            /\ IF fullscreen
               THEN /\ shared' = [shared EXCEPT
                                     !.standard_frame =
                                         Some(ContentRect(window.frame, window.styleMask)),
                                     !.saved_style = Some(window.styleMask),
                                     !.save_presentation_opts = Some(app),
                                     !.is_simple_fullscreen = TRUE]
                    /\ app' = SimplePresentation
                    /\ window' = [window EXCEPT
                                     !.styleMask = @ \ {Titled, Miniaturizable, Resizable},
                                     !.frame = "screen",
                                     !.movable = FALSE]
                    /\ log' = [log EXCEPT ![t] =
                                  << Issued("set_presentation_options", 0, TRUE),
                                     Issued("toggle_style_mask", 0, TRUE),
                                     Issued("set_frame", 0, TRUE),
                                     Issued("toggle_style_mask", 0, TRUE),
                                     Issued("toggle_style_mask", 0, TRUE),
                                     Issued("set_movable", 0, TRUE) >>]
                    /\ UNCHANGED queue
               ELSE /\ shared' = [shared EXCEPT
                                     !.saved_style = NoneOpt,
                                     !.is_simple_fullscreen = FALSE]
                    /\ queue' = Append(queue,
                                    Block("set_style_mask", 0,
                                          SavedStyleMask(shared, window.styleMask), FALSE))
                    /\ app' = IF IsSome(shared.save_presentation_opts)
                              THEN Unwrap(shared.save_presentation_opts) ELSE app
                    /\ window' = [window EXCEPT
                                     !.frame = SavedStandardFrame(shared),
                                     !.movable = TRUE]
                    /\ log' = [log EXCEPT ![t] =
                                  << Issued("set_style_mask", 0, TRUE) >>
                                  \o (IF IsSome(shared.save_presentation_opts)
                                      THEN << Issued("set_presentation_options", 0, TRUE) >>
                                      ELSE << >>)
                                  \o << Issued("set_frame", 0, TRUE),
                                        Issued("set_movable", 0, TRUE) >>]
    /\ trip' = NoTrip
    /\ swap' = NoSwap
    /\ locks' = [locks EXCEPT ![t] = SimpleFullscreenLocks]
    /\ session' = IF fullscreen /\ ~SimpleFullscreenRefused(fullscreen)
                  THEN NoneOpt ELSE session
    /\ hist' = IF SimpleFullscreenRefused(fullscreen) THEN NoHist
               ELSE IF fullscreen
               THEN IF Settled
                    THEN [NoHist EXCEPT !.sstage = "entered", !.sframe = window.frame,
                                        !.smask = window.styleMask, !.sapp = app]
                    ELSE NoHist
               ELSE IF hist.sstage = "entered"
               THEN [hist EXCEPT !.sstage = "exited"]
               ELSE NoHist
    /\ UNCHANGED << decorations, captured, displayMode, os, pc, arg, old, alive >>

\* ----------------------------------------------------------- teardown
\* Drop for UnownedWindow (1285-1293): only the close of the window is queued.
DropBlocks == << Block("close", 0, {}, FALSE) >>

\* The last owner lets go of the window: the shared state and the per-call
\* locals are gone with it.
DropWindow ==
    /\ alive /\ ncalls < MaxCalls
    /\ \A t \in Threads : pc[t] = "idle"
    /\ alive' = FALSE
    /\ ncalls' = ncalls + 1
    /\ queue' = queue \o DropBlocks
    /\ shared' = InitialShared(FALSE, FALSE)
    /\ decorations' = FALSE
    /\ arg' = [t \in Threads |-> NoFullscreen]
    /\ old' = [t \in Threads |-> NoFullscreen]
    /\ log' = [t \in Threads |-> << >>]
    /\ call' = [t \in Threads |-> NoCall]
    /\ trip' = NoTrip
    /\ swap' = NoSwap
    /\ hist' = NoHist
    /\ locks' = [t \in Threads |-> << >>]
    /\ session' = NoneOpt
    /\ UNCHANGED << window, app, captured, displayMode, os, pc >>

\* ------------------------------------------------------- specification
Next ==
    \/ \E t \in Threads, m \in Modes : SetFullscreen(t, m)
    \/ SetFullscreenReplay
    \/ \E t \in Threads : SetFullscreenPrepare(t)
    \/ \E t \in Threads : SetFullscreenRecord(t)
    \/ \E t \in Threads, b \in BOOLEAN : SetResizable(t, b)
    \/ \E t \in Threads, b \in BOOLEAN : SetDecorations(t, b)
    \/ \E t \in Threads, b \in BOOLEAN : SetMaximized(t, b)
    \/ \E t \in Threads, b \in BOOLEAN : SetSimpleFullscreen(t, b)
    \/ \E t \in Threads, b \in BOOLEAN : SetAlwaysOnTop(t, b)
    \/ \E t \in Threads : Fullscreen(t)
    \/ RunToggleFullScreen
    \/ UserToggle
    \/ DidEnd
    \/ RunSetStyleMask
    \/ RunSetFrameTopLeftPoint
    \/ RunRestoreDisplayMode
    \/ RunSetMaximized
    \/ RunSetLevel
    \/ RunClose
    \/ DropWindow

Spec == Init /\ [][Next]_vars

\* -------------------------------------------- set_fullscreen requests only
\* The part of set_fullscreen before the second critical section, when the
\* capture and the mode switch succeed (no assertion fails).
SetFullscreenPrepareOk(t) ==
    SetFullscreenPrepare(t) /\ call'[t].outcome # "panicked"

\* A finite sequence of set_fullscreen requests: no other call is made, the
\* user does not toggle, the window is not dropped, no assertion fails.
NextLive ==
    \/ \E m \in Modes : SetFullscreen(Caller, m)
    \/ SetFullscreenReplay
    \/ \E t \in Threads : SetFullscreenPrepareOk(t)
    \/ \E t \in Threads : SetFullscreenRecord(t)
    \/ RunToggleFullScreen
    \/ DidEnd
    \/ RunSetStyleMask
    \/ RunSetFrameTopLeftPoint
    \/ RunRestoreDisplayMode

\* Every call that has started goes on, the main thread runs every block it
\* is handed, and the OS ends every transition it has begun.  The caller is
\* under no obligation to make a request.
Fairness ==
    /\ WF_vars(SetFullscreenReplay)
    /\ \A t \in Threads : WF_vars(SetFullscreenPrepareOk(t))
    /\ \A t \in Threads : WF_vars(SetFullscreenRecord(t))
    /\ WF_vars(RunToggleFullScreen)
    /\ WF_vars(DidEnd)
    /\ WF_vars(RunSetStyleMask)
    /\ WF_vars(RunSetFrameTopLeftPoint)
    /\ WF_vars(RunRestoreDisplayMode)

SpecLive == Init /\ [][NextLive]_vars /\ Fairness

\* --------------------------------------------------------- construction
\* SharedStateFrom carrying the requested fullscreen mode over.
SharedStateFrom_CarryFullscreen(attribs) ==
    [InitialShared(attribs.resizable, attribs.maximized)
        EXCEPT !.fullscreen = attribs.fullscreen]

\* From<WindowAttributes> for SharedState (321-336): resizable and maximized
\* are copied, the fullscreen attribute is not.
SharedStateFrom(attribs) == InitialShared(attribs.resizable, attribs.maximized)

\* UnownedWindow::new (388-459) up to its call of set_fullscreen: the window
\* and the shared state exist, the main thread is about to call
\* set_fullscreen with the fullscreen attribute, and no other thread has the
\* window yet.
InitNew ==
    \E resizable \in BOOLEAN, decorated \in BOOLEAN, maximized \in BOOLEAN,
       fullscreen \in Modes :
        LET attribs == [resizable |-> resizable, decorations |-> decorated,
                        maximized |-> maximized, fullscreen |-> fullscreen]
        IN
        /\ shared = SharedStateFrom(attribs)
        /\ decorations = attribs.decorations
        /\ window = [styleMask |-> InitialMask(decorated, resizable),
                     screen |-> 1, level |-> LevelFor(FALSE), zoomed |-> FALSE,
                     frame |-> "windowed", movable |-> TRUE]
        /\ app = UserPresentation
        /\ captured = {}
        /\ displayMode = [m \in Monitors |-> "desktop"]
        /\ queue = << >>
        /\ os = [phase |-> "idle", native |-> FALSE, entering |-> FALSE,
                 requested |-> FALSE]
        /\ pc = [t \in Threads |-> IF t = "main" THEN "sf_check" ELSE "waiting"]
        /\ arg = [t \in Threads |-> IF t = "main" THEN attribs.fullscreen
                                    ELSE NoFullscreen]
        /\ old = [t \in Threads |-> NoFullscreen]
        /\ log = [t \in Threads |-> << >>]
        /\ call = [t \in Threads |-> NoCall]
        /\ alive = TRUE
        /\ ncalls = 0
        /\ trip = NoTrip
        /\ swap = NoSwap
        /\ hist = NoHist
        /\ locks = [t \in Threads |-> << >>]
        /\ session = NoneOpt

\* UnownedWindow::new after set_fullscreen has returned (461-473): a window
\* created maximized is maximized and the window is handed out.  When the
\* call unwound on a failed assertion the window is dropped instead.
NewFinish ==
    /\ pc["worker"] = "waiting" /\ pc["main"] = "idle"
    /\ pc' = [pc EXCEPT !["worker"] = "idle"]
    /\ IF call["main"].outcome = "panicked"
       THEN /\ alive' = FALSE
            /\ queue' = queue \o DropBlocks
            /\ shared' = InitialShared(FALSE, FALSE)
            /\ decorations' = FALSE
            /\ call' = [t \in Threads |-> NoCall]
            /\ log' = [t \in Threads |-> << >>]
            /\ UNCHANGED window
       ELSE /\ IF shared.maximized
               THEN /\ window' = [window EXCEPT !.styleMask = ZoomQueryMask]
                    /\ queue' = queue \o ZoomQueryBlocks \o MaximizeBlocks(TRUE)
               ELSE UNCHANGED << window, queue >>
            /\ UNCHANGED << shared, decorations, call, log, alive >>
    /\ UNCHANGED << app, captured, displayMode, os, arg, old, ncalls,
                    trip, swap, hist, locks, session >>

\* new() and what the main thread then does with the blocks new() queued; no
\* call is made on the window afterwards.
NextNew ==
    \/ SetFullscreenReplay
    \/ SetFullscreenPrepare("main")
    \/ SetFullscreenRecord("main")
    \/ NewFinish
    \/ RunToggleFullScreen
    \/ DidEnd
    \/ RunSetFrameTopLeftPoint
    \/ RunSetStyleMask
    \/ RunSetMaximized
    \/ RunClose

SpecNew == InitNew /\ [][NextNew]_vars

\* ================================================================ claims
\* set_fullscreen(m) is entered on thread t: by a caller, or by the delegate
\* replaying the deferred value on the main thread.
SetFullscreenCalled(t, m) ==
    \/ SetFullscreen(t, m)
    \/ (t = "main" /\ m = arg["main"] /\ SetFullscreenReplay)

\* Nothing outside the calling thread's bookkeeping changes: no block is
\* queued and the window, the application options and the displays are as
\* they were.
NoCommandIssued(t) ==
    /\ queue' = queue
    /\ window' = window
    /\ app' = app
    /\ captured' = captured
    /\ displayMode' = displayMode
    /\ os' = os
    /\ log'[t] = << >>

\* C1 -- Idempotence: with no transition in flight and simple fullscreen
\* inactive, set_fullscreen(m) with m equal to the current fullscreen field
\* returns at once, issues no Surface or Display command and leaves
\* in_fullscreen_transition, target_fullscreen and fullscreen (the whole
\* shared state) unchanged.
C1_Idempotence ==
    [][\A t \in Threads, m \in Modes :
          ( /\ SetFullscreenCalled(t, m)
            /\ ~shared.in_fullscreen_transition
            /\ ~shared.is_simple_fullscreen
            /\ m = shared.fullscreen )
          => ( /\ pc'[t] = "idle"
               /\ shared' = shared
               /\ NoCommandIssued(t) )]_vars

\* A call of set_fullscreen with the current Borderless or Exclusive mode has
\* returned as a no-op.
C1_Witness ==
    /\ call["worker"].op = "set_fullscreen"
    /\ call["worker"].outcome = "noop"
    /\ shared.fullscreen.kind # "None"

\* C2 (as claimed) -- Deferral: a set_fullscreen(m) call made while
\* in_fullscreen_transition is true only writes target_fullscreen := m and
\* returns; fullscreen and in_fullscreen_transition are unchanged and no
\* Surface or Display command is issued.
C2_DeferralAsClaimed ==
    [][\A t \in Threads, m \in Modes :
          ( /\ SetFullscreenCalled(t, m)
            /\ shared.in_fullscreen_transition )
          => ( /\ pc'[t] = "idle"
               /\ shared' = [shared EXCEPT !.target_fullscreen = Some(m)]
               /\ NoCommandIssued(t) )]_vars

\* C2 (amended) -- the same for calls made while simple fullscreen is not
\* active; while it is active the call returns without writing the slot.
C2_Deferral ==
    [][\A t \in Threads, m \in Modes :
          ( /\ SetFullscreenCalled(t, m)
            /\ shared.in_fullscreen_transition )
          => ( /\ pc'[t] = "idle"
               /\ shared' = IF shared.is_simple_fullscreen THEN shared
                            ELSE [shared EXCEPT !.target_fullscreen = Some(m)]
               /\ NoCommandIssued(t) )]_vars

\* A request has been deferred during a transition the OS is animating.
C2_Witness ==
    /\ call["worker"].op = "set_fullscreen"
    /\ call["worker"].outcome = "deferred"
    /\ os.phase = "animating"
    /\ shared.in_fullscreen_transition
    /\ IsSome(shared.target_fullscreen)

\* A toggle block of the window is waiting on the main queue.
ToggleQueued == \E i \in 1..Len(queue) : queue[i].c = "toggle_full_screen"

\* A native transition started by an earlier set_fullscreen has not completed:
\* its toggle is still queued, or the OS is animating it.
RequestedTransitionOutstanding ==
    ToggleQueued \/ (os.phase = "animating" /\ os.requested)

\* C3 (as claimed) -- Deferred-request collapse: once set_fullscreen(A) has
\* started a native transition, a request made before on_transition_did_end
\* is never recorded in the fullscreen field and issues no OS command; when
\* the transition ends, the one value left in the slot (the last request) is
\* handed to set_fullscreen, once, and the slot is emptied.
C3_CollapseAsClaimed ==
    [][ /\ \A t \in Threads :
              SetFullscreenRecord(t) => ~RequestedTransitionOutstanding
        /\ (DidEnd /\ alive /\ IsSome(shared.target_fullscreen))
              => ( /\ pc'["main"] = "sf_check"
                   /\ arg'["main"] = Unwrap(shared.target_fullscreen)
                   /\ shared'.target_fullscreen = NoneOpt ) ]_vars

\* C4 (as claimed) -- Deferred requests are never silently dropped: a value
\* leaves target_fullscreen only by being overwritten by a later request or by
\* being handed to set_fullscreen when the transition ends, and that replayed
\* call applies it (it is accepted, or the window is already in that mode).
C4_NeverDroppedAsClaimed ==
    [][ /\ ( /\ alive'
             /\ IsSome(shared.target_fullscreen)
             /\ shared'.target_fullscreen # shared.target_fullscreen )
           => \/ IsSome(shared'.target_fullscreen)
              \/ ( /\ pc'["main"] = "sf_check"
                   /\ arg'["main"] = Unwrap(shared.target_fullscreen) )
        /\ SetFullscreenReplay
           => call'["main"].outcome \in {"accepted", "noop", "deferred"} ]_vars

\* C5 -- Last writer wins: every deferred call leaves its own argument in
\* target_fullscreen, whatever the slot held, and the slot changes in no other
\* way than by a deferred call or by being emptied.
C5_LastWriterWins ==
    [][ /\ \A t \in Threads, m \in Modes :
              ( /\ SetFullscreenCalled(t, m)
                /\ shared.in_fullscreen_transition
                /\ ~shared.is_simple_fullscreen )
              => shared'.target_fullscreen = Some(m)
        /\ shared'.target_fullscreen # shared.target_fullscreen
           => \/ shared'.target_fullscreen = NoneOpt
              \/ \E t \in Threads, m \in Modes :
                    /\ SetFullscreenCalled(t, m)
                    /\ shared.in_fullscreen_transition
                    /\ shared'.target_fullscreen = Some(m) ]_vars

\* A deferred call has overwritten a different value deferred before it.
C5_Witness ==
    /\ call["worker"].op = "set_fullscreen"
    /\ call["worker"].outcome = "deferred"
    /\ IsSome(call["worker"].slot)
    /\ IsSome(shared.target_fullscreen)
    /\ call["worker"].slot # shared.target_fullscreen

\* The number of toggle blocks on the main queue.
ToggleCount(q) == Cardinality({i \in 1..Len(q) : q[i].c = "toggle_full_screen"})

\* C6 (as claimed) -- No toggle while in transition: between
\* on_transition_will_begin and the matching on_transition_did_end no native
\* toggle and no other transition command is dispatched; a request arriving
\* then only sets target_fullscreen.
C6_NoToggleInTransitionAsClaimed ==
    [][ os.phase = "animating" /\ shared.in_fullscreen_transition
        => /\ ToggleCount(queue') <= ToggleCount(queue)
           /\ \A t \in Threads : ~SetFullscreenRecord(t) ]_vars

\* C7 (as claimed) -- Capture/mode duality: whenever no call is running and
\* nothing is queued or animating, a display capture is held if and only if
\* the fullscreen field is Exclusive.
C7_CaptureModeDualityAsClaimed ==
    ( /\ alive
      /\ \A t \in Threads : pc[t] = "idle"
      /\ queue = << >>
      /\ os.phase = "idle" )
    => ((captured # {}) <=> (shared.fullscreen.kind = "Exclusive"))

\* C8 (as claimed) -- The display capture is released on every exit path:
\* once a call has unwound on a failed video-mode switch, or the window has
\* been dropped and the main queue has drained, no display is still captured.
C8_CaptureReleasedAsClaimed ==
    ( /\ \A t \in Threads : pc[t] = "idle"
      /\ queue = << >>
      /\ ~alive \/ \E t \in Threads : call[t].outcome = "panicked" )
    => captured = {}

\* C9 -- Restoration fidelity: when Borderless was entered from a settled
\* windowed state and has been left again with no set_resizable,
\* set_decorations, set_maximized or set_simple_fullscreen call in between
\* and no further transition begun since, then once the queued blocks have
\* run, resizable, decorated, maximized (the
\* shared flag and the window's zoom state) and the window's style mask are
\* what they were before entry.
C9_RestorationFidelity ==
    ( /\ trip.stage = "restored"
      /\ \A t \in Threads : pc[t] = "idle"
      /\ queue = << >> )
    => ( /\ shared.resizable = trip.resizable
         /\ decorations = trip.decorations
         /\ shared.maximized = trip.maximized
         /\ window.zoomed = trip.zoomed
         /\ window.styleMask = trip.styleMask )

\* Borderless has been entered and left and the restoring blocks have run.
C9_Witness ==
    /\ trip.stage = "restored"
    /\ \A t \in Threads : pc[t] = "idle"
    /\ queue = << >>
    /\ os.phase = "idle" /\ ~os.native
    /\ shared.fullscreen.kind = "None"

\* The block that moves the window's top-left corner to monitor m.
MoveBlock(m) == Block("set_frame_top_left_point", m, {}, FALSE)

\* Positions of the commands named c in a thread's log.
LogIndexes(l, c) == {i \in 1..Len(l) : l[i].c = c}

\* C10 -- Cross-monitor ordering: set_fullscreen queues the move of the
\* window to the target monitor's frame exactly when the requested mode's
\* monitor is not the window's current screen, and queues it before the
\* native toggle: the toggle goes to the tail of the main queue, behind the
\* move, and the call's log has the move first.
C10_MoveBeforeToggle ==
    [][\A t \in Threads :
          /\ SetFullscreenPrepare(t)
             => LET m == arg[t]
                    target == IF m.kind = "Borderless" /\ m.monitor = 0
                              THEN window.screen ELSE m.monitor
                IN  IF m.kind # "None" /\ target # window.screen
                    THEN queue' = Append(queue, MoveBlock(target))
                    ELSE queue' = queue
          /\ (SetFullscreenRecord(t) /\ ToggleCount(queue') > ToggleCount(queue))
             => /\ queue'[Len(queue')].c = "toggle_full_screen"
                /\ \A i \in LogIndexes(log'[t], "set_frame_top_left_point"),
                      j \in LogIndexes(log'[t], "toggle_full_screen") : i < j ]_vars

\* A call has moved the window to the other monitor and then toggled.
C10_Witness ==
    /\ call["worker"].op = "set_fullscreen"
    /\ call["worker"].outcome = "done"
    /\ LogIndexes(log["worker"], "set_frame_top_left_point") # {}
    /\ LogIndexes(log["worker"], "toggle_full_screen") # {}

C20_BorderlessRoundTripAsClaimed ==
    [][\A t \in Threads :
          ( /\ SetFullscreenRecord(t)
            /\ TransitionArm(old[t], arg[t]) = "exclusive_to_borderless"
            /\ swap.from = "Borderless" /\ ~swap.back )
          => ( /\ window'.level = swap.level
               /\ app' = swap.app )]_vars

\* No call is running and the main queue has drained.
Drained == (\A t \in Threads : pc[t] = "idle") /\ queue = << >>

\* C12 (as claimed) -- Deferred resizability: after set_resizable(r) was
\* called while the fullscreen field was not None and the window has since
\* left fullscreen, the style mask the window ends with has the resizable bit
\* exactly when the last stored r is true.
C12_DeferredResizabilityAsClaimed ==
    (hist.cstage = "restored" /\ hist.cres /\ Drained)
    => ((Resizable \in window.styleMask) <=> shared.resizable)

\* C13 (as claimed) -- Deferred decorations: after set_decorations(d) changed
\* the flag while the fullscreen field was not None and the window has since
\* left fullscreen, the style mask the window ends with reflects the last
\* recorded d: titled, closable and miniaturizable when d, none of them when
\* not d.
C13_DeferredDecorationsAsClaimed ==
    (hist.cstage = "restored" /\ hist.cdec /\ Drained)
    => (window.styleMask \cap {Titled, Closable, Miniaturizable}
            = IF decorations THEN {Titled, Closable, Miniaturizable} ELSE {})

\* The number of maximize blocks on the main queue.
MaximizeCount(q) == Cardinality({i \in 1..Len(q) : q[i].c = "set_maximized"})

\* C14 (as claimed) -- set_maximized(b) at zoom state b issues no Surface
\* command (the style mask and the main queue are untouched) and leaves the
\* shared state unchanged; at another zoom state it queues exactly one
\* maximize block.
C14_SetMaximizedNoOpAsClaimed ==
    [][\A t \in Threads, b \in BOOLEAN :
          SetMaximized(t, b)
          => IF window.zoomed = b
             THEN queue' = queue /\ window' = window /\ shared' = shared
             ELSE MaximizeCount(queue') = MaximizeCount(queue) + 1]_vars

\* C15 -- While simple fullscreen is active, every set_fullscreen(m) call
\* returns at once: the shared state (fullscreen, in_fullscreen_transition,
\* target_fullscreen) is unchanged and no Surface or Display command is issued.
C15_RejectedInSimpleFullscreen ==
    [][\A t \in Threads, m \in Modes :
          (SetFullscreenCalled(t, m) /\ shared.is_simple_fullscreen)
          => ( /\ pc'[t] = "idle"
               /\ shared' = shared
               /\ NoCommandIssued(t) )]_vars

\* A set_fullscreen call has been rejected while simple fullscreen is active.
C15_Witness ==
    /\ call["worker"].op = "set_fullscreen"
    /\ call["worker"].outcome = "rejected"
    /\ shared.is_simple_fullscreen

\* C16 (as claimed) -- Mutual exclusion: is_simple_fullscreen and
\* fullscreen # None are never both true.
C16_MutualExclusionAsClaimed ==
    ~(shared.is_simple_fullscreen /\ shared.fullscreen.kind # "None")

\* C17 (as claimed) -- Simple fullscreen round trip: after
\* set_simple_fullscreen(true) in a settled windowed state followed by
\* set_simple_fullscreen(false), once the queued blocks have run, the frame,
\* the style mask and the presentation options are what they were before
\* entry and is_simple_fullscreen is false.
C17_SimpleRoundTripAsClaimed ==
    (hist.sstage = "exited" /\ Drained)
    => ( /\ window.frame = hist.sframe
         /\ window.styleMask = hist.smask
         /\ app = hist.sapp
         /\ ~shared.is_simple_fullscreen )

C19_LastConfirmedModeAsClaimed ==
    (alive /\ shared.fullscreen.kind # "None") => os.native

\* C21 -- on_transition_did_end clears in_fullscreen_transition and empties
\* target_fullscreen; a value held in the slot is handed to set_fullscreen on
\* the main thread in that same step and in no other step, so no value is
\* replayed twice; the replayed call runs once (it does not re-enter the
\* check) and does not write the slot, which stays empty until a later request
\* is deferred during a transition.
C21_ReplayExactlyOnce ==
    [][ /\ (DidEnd /\ alive)
           => ( /\ ~shared'.in_fullscreen_transition
                /\ shared'.target_fullscreen = NoneOpt
                /\ IF IsSome(shared.target_fullscreen)
                   THEN /\ pc'["main"] = "sf_check"
                        /\ arg'["main"] = Unwrap(shared.target_fullscreen)
                   ELSE pc'["main"] = pc["main"] )
        /\ (pc'["main"] = "sf_check" /\ pc["main"] # "sf_check")
           => (DidEnd /\ alive /\ IsSome(shared.target_fullscreen))
        /\ SetFullscreenReplay
           => ( /\ pc'["main"] # "sf_check"
                /\ shared'.target_fullscreen = shared.target_fullscreen )
        /\ (shared.target_fullscreen = NoneOpt /\ IsSome(shared'.target_fullscreen))
           => \E t \in Threads, m \in Modes :
                 SetFullscreenCalled(t, m) /\ shared.in_fullscreen_transition ]_vars

\* A deferred value has been replayed and applied, and the slot is empty.
C21_Witness ==
    /\ call["main"].op = "set_fullscreen"
    /\ call["main"].outcome = "done"
    /\ shared.target_fullscreen = NoneOpt
    /\ ~shared.in_fullscreen_transition

\* The commands handed to the main queue by the util::*_async helpers.
AsyncCommands ==
    {"toggle_full_screen", "restore_display_mode", "set_style_mask",
     "set_frame_top_left_point", "set_maximized"}

\* C22 (as claimed) -- Lock discipline: the shared-state mutex is not held at
\* the moment a call issues an asynchronous Surface or Display command.
C22_LockDisciplineAsClaimed ==
    \A t \in Threads : \A i \in 1..Len(log[t]) :
        log[t][i].c \in AsyncCommands => ~log[t][i].locked

\* The block that restores the desktop video mode of monitor d and releases
\* its capture.
RestoreBlock(d) == Block("restore_display_mode", d, {}, FALSE)

\* C23 -- A Borderless<->Exclusive switch queues no native toggle, leaves
\* in_fullscreen_transition and the OS's fullscreen machinery alone and changes
\* only the presentation options and the window level (leaving Exclusive, it
\* also queues the restoration of the display mode); entering from None and
\* leaving to None queue exactly one native toggle each.
C23_SwitchWithoutToggle ==
    [][\A t \in Threads :
          SetFullscreenRecord(t)
          => LET arm == TransitionArm(old[t], arg[t]) IN
             /\ arm \in {"borderless_to_exclusive", "exclusive_to_borderless"}
                => ( /\ LogIndexes(log'[t], "toggle_full_screen") = {}
                     /\ queue' = queue \o (IF arm = "exclusive_to_borderless"
                                           THEN << RestoreBlock(old[t].monitor) >>
                                           ELSE << >>)
                     /\ shared'.in_fullscreen_transition = shared.in_fullscreen_transition
                     /\ os' = os
                     /\ window' = [window EXCEPT !.level = window'.level]
                     /\ LogIndexes(log'[t], "set_presentation_options") # {}
                     /\ LogIndexes(log'[t], "set_level") # {} )
             /\ arm \in {"enter", "exit_borderless", "exit_exclusive"}
                => ( /\ ToggleCount(queue') = ToggleCount(queue) + 1
                     /\ Cardinality(LogIndexes(log'[t], "toggle_full_screen")) = 1 )]_vars

\* A switch from Borderless to Exclusive has been made without a toggle.
C23_Witness ==
    /\ call["worker"].op = "set_fullscreen"
    /\ call["worker"].outcome = "done"
    /\ shared.fullscreen.kind = "Exclusive"
    /\ LogIndexes(log["worker"], "set_presentation_options") # {}
    /\ LogIndexes(log["worker"], "toggle_full_screen") = {}
    /\ ~shared.in_fullscreen_transition
    /\ os.phase = "idle" /\ os.native

\* C24 (as claimed) -- Every accepted request that leaves an Exclusive mode
\* (to None, to Borderless, or to Exclusive on another monitor) queues the
\* restoration of the video mode of the monitor being left, which releases
\* its capture.
C24_LeavingExclusiveReleasesAsClaimed ==
    [][\A t \in Threads :
          ( /\ SetFullscreenRecord(t)
            /\ old[t].kind = "Exclusive" /\ arg[t] # old[t] )
          => \E i \in (Len(queue) + 1)..Len(queue') :
                queue'[i] = RestoreBlock(old[t].monitor)]_vars

\* C25 (as claimed) -- The catch-all arm of the transition match is never
\* taken: every accepted request is processed by one of the five handlers.
C25_CatchAllUnreachableAsClaimed ==
    [][\A t \in Threads :
          SetFullscreenRecord(t) => TransitionArm(old[t], arg[t]) # "catch_all"]_vars

\* C26 -- Fade is best-effort: a call entering Exclusive whose fade
\* reservation failed (no fade to black was made) issues no fade-in and no
\* release of the reservation, and, the capture and the mode switch
\* succeeding, captures the display, switches the video mode and goes on to
\* record the mode; no failure is raised on account of the fade (a call
\* unwinds only right after the capture or the mode switch).
C26_FadeBestEffort ==
    [][\A t \in Threads :
          (SetFullscreenPrepare(t) /\ arg[t].kind = "Exclusive")
          => LET l == log'[t]
                 d == arg[t].monitor
                 faded == LogIndexes(l, "fade_out") # {}
                 panicked == LogIndexes(l, "panic") # {}
             IN  /\ ~faded => ( /\ LogIndexes(l, "fade_in") = {}
                               /\ LogIndexes(l, "release_fade") = {} )
                 /\ ~panicked
                    => ( /\ LogIndexes(l, "capture") # {}
                         /\ LogIndexes(l, "set_display_mode") # {}
                         /\ captured' = captured \cup {d}
                         /\ displayMode'[d] = "custom"
                         /\ pc'[t] = "sf_record"
                         /\ (LogIndexes(l, "fade_in") # {}) = faded )
                 /\ panicked
                    => ( /\ l[Len(l)].c = "panic"
                         /\ displayMode' = displayMode
                         /\ (LogIndexes(l, "set_display_mode") = {}) ) ]_vars

\* Exclusive has been entered and recorded by a call that made no fade.
C26_Witness ==
    /\ call["worker"].op = "set_fullscreen"
    /\ call["worker"].outcome = "done"
    /\ shared.fullscreen.kind = "Exclusive"
    /\ LogIndexes(log["worker"], "capture") # {}
    /\ LogIndexes(log["worker"], "set_display_mode") # {}
    /\ LogIndexes(log["worker"], "fade_out") = {}
    /\ LogIndexes(log["worker"], "toggle_full_screen") # {}

\* C27 -- Entering Exclusive from Borderless saves the presentation options
\* in effect at that moment and only then applies the exclusive ones; the
\* switch back to Borderless applies the saved options: after a switch
\* requested in a settled Borderless state they are the options Borderless
\* had, not the exclusive ones.
C27_SavedBeforeExclusive ==
    [][\A t \in Threads :
          SetFullscreenRecord(t)
          => LET arm == TransitionArm(old[t], arg[t]) IN
             /\ arm = "borderless_to_exclusive"
                => ( /\ shared'.save_presentation_opts = Some(app)
                     /\ app' = ExclusivePresentation )
             /\ (arm = "exclusive_to_borderless" /\ IsSome(shared.save_presentation_opts))
                => app' = Unwrap(shared.save_presentation_opts)
             /\ ( /\ arm = "exclusive_to_borderless"
                  /\ swap.from = "Borderless" /\ ~swap.back )
                => ( /\ shared.save_presentation_opts = Some(swap.app)
                     /\ app' = swap.app
                     /\ app' # ExclusivePresentation )]_vars

\* The round trip Borderless -> Exclusive -> Borderless has been made.
C27_Witness ==
    /\ swap.from = "Borderless" /\ swap.back
    /\ shared.fullscreen.kind = "Borderless"
    /\ call["worker"].outcome = "done"
    /\ app = swap.app

\* C29 -- saved_style is Some only while a chrome-overriding mode is active:
\* in every state with fullscreen = None, is_simple_fullscreen false and no
\* transition in flight saved_style is None, and both restorations
\* (restore_state_from_fullscreen when the window has left native fullscreen,
\* set_simple_fullscreen(false)) leave it None.
C29_SavedStyleOnlyWhileActive ==
    [][ /\ ( /\ alive'
             /\ shared'.fullscreen.kind = "None"
             /\ ~shared'.is_simple_fullscreen
             /\ ~shared'.in_fullscreen_transition )
           => shared'.saved_style = NoneOpt
        /\ (DidEnd /\ alive /\ ~os.entering) => shared'.saved_style = NoneOpt
        /\ \A t \in Threads :
              (SetSimpleFullscreen(t, FALSE) /\ ~SimpleFullscreenRefused(FALSE))
              => shared'.saved_style = NoneOpt ]_vars

\* Simple fullscreen was entered, which saved the style mask, and the window
\* then left native fullscreen: the restoration has taken the saved mask.
C29_Witness ==
    /\ shared.is_simple_fullscreen
    /\ shared.saved_style = NoneOpt
    /\ shared.fullscreen.kind = "None"
    /\ os.phase = "idle" /\ ~os.native
    /\ alive

\* C28 -- The shared state is created with fullscreen = None,
\* in_fullscreen_transition = false and target_fullscreen empty whatever mode
\* the window attributes request, so the set_fullscreen call made by new()
\* with the requested mode is accepted (it is a no-op only when no mode is
\* requested).
C28_InitialSharedState ==
    [][ (SetFullscreenReplay /\ pc["worker"] = "waiting")
        => ( /\ shared.fullscreen = NoFullscreen
             /\ ~shared.in_fullscreen_transition
             /\ shared.target_fullscreen = NoneOpt
             /\ IF arg["main"] = NoFullscreen
                THEN call'["main"].outcome = "noop"
                ELSE /\ call'["main"].outcome = "accepted"
                     /\ pc'["main"] = "sf_prepare" ) ]_vars

\* new() was given a fullscreen mode: its set_fullscreen call has recorded
\* the mode and queued the toggle, and the window is not handed out yet.
C28_Witness ==
    /\ pc["worker"] = "waiting"
    /\ call["main"].op = "set_fullscreen" /\ call["main"].outcome = "done"
    /\ shared.fullscreen.kind # "None"
    /\ ToggleQueued

\* The mode asked for by the latest request of the caller (None before the
\* first request).
LastRequested == call[Caller].mode

\* No transition is in flight, nothing is deferred, and the fullscreen field
\* and the window's native state are the last requested mode.
Quiescent ==
    /\ ~shared.in_fullscreen_transition
    /\ shared.target_fullscreen = NoneOpt
    /\ shared.fullscreen = LastRequested
    /\ os.native = (LastRequested.kind # "None")

\* C30 (as claimed) -- Quiescence: after a finite sequence of set_fullscreen
\* requests, the OS completing every toggle it is handed, the system comes to
\* rest with in_fullscreen_transition false, target_fullscreen empty and the
\* fullscreen field and the native window mode equal to the last requested
\* mode.
C30_QuiescenceAsClaimed == <>[]Quiescent

\* C31 (as claimed) -- The decision of set_fullscreen is atomic: when the call
\* records the new mode, the old mode it chose its handler by is the value of
\* the fullscreen field it overwrites, no transition is in flight and simple
\* fullscreen is not active.
C31_AtomicDecisionAsClaimed ==
    [][\A t \in Threads :
          SetFullscreenRecord(t)
          => ( /\ old[t] = shared.fullscreen
               /\ ~shared.in_fullscreen_transition
               /\ ~shared.is_simple_fullscreen )]_vars

\* A native transition is under way: the flag is set, the OS is animating, or
\* a toggle has been queued and has not reached the window.
NativeTransitionInFlight ==
    shared.in_fullscreen_transition \/ os.phase = "animating" \/ ToggleQueued

\* C35 (as claimed) -- set_simple_fullscreen(true) returns false and changes
\* nothing while a native transition is in flight, and
\* restore_state_from_fullscreen never runs while simple fullscreen is active.
C35_NoSimpleDuringTransitionAsClaimed ==
    [][ /\ \A t \in Threads :
              (SetSimpleFullscreen(t, TRUE) /\ NativeTransitionInFlight)
              => ( /\ call'[t].outcome = "false"
                   /\ shared' = shared /\ window' = window /\ app' = app )
        /\ (DidEnd /\ alive /\ ~os.entering) => ~shared.is_simple_fullscreen ]_vars

\* C36 (as claimed) -- While simple fullscreen is active, set_resizable and
\* set_decorations only record the requested value: no style-mask command is
\* issued and the window's style mask is left as it is.
C36_ChromeDuringSimpleAsClaimed ==
    [][\A t \in Threads, b \in BOOLEAN :
          ((SetResizable(t, b) \/ SetDecorations(t, b)) /\ shared.is_simple_fullscreen)
          => ( /\ queue' = queue
               /\ window' = window
               /\ log'[t] = << >> )]_vars

\* C33 (as claimed) -- At most one display is captured and it is the monitor
\* of the current Exclusive mode: whenever no call is running, the main queue
\* has drained and the OS is not animating, the displays captured and not
\* released are none when the fullscreen field is not Exclusive and exactly
\* the mode's monitor when it is.
C33_OneCaptureAsClaimed ==
    (Drained /\ os.phase = "idle")
    => captured = IF shared.fullscreen.kind = "Exclusive"
                  THEN {shared.fullscreen.monitor} ELSE {}

\* ------------------------------------------- the operations that lock
\* The operations that take the shared-state mutex, called in any order by
\* the caller, with the main-queue blocks and delegate callbacks they lead to.
NextOps ==
    \/ \E m \in Modes : SetFullscreen(Caller, m)
    \/ SetFullscreenReplay
    \/ \E t \in Threads : SetFullscreenPrepare(t)
    \/ \E t \in Threads : SetFullscreenRecord(t)
    \/ \E b \in BOOLEAN : SetResizable(Caller, b)
    \/ \E b \in BOOLEAN : SetDecorations(Caller, b)
    \/ \E b \in BOOLEAN : SetSimpleFullscreen(Caller, b)
    \/ Fullscreen(Caller)
    \/ RunToggleFullScreen
    \/ DidEnd
    \/ RunSetStyleMask
    \/ RunSetFrameTopLeftPoint
    \/ RunRestoreDisplayMode

\* A thread that is inside a call goes on running, the main thread runs every
\* block it is handed, and the OS ends every transition it has begun.  The
\* caller is under no obligation to make a request.
FairnessOps ==
    /\ WF_vars(SetFullscreenReplay)
    /\ \A t \in Threads : WF_vars(SetFullscreenPrepare(t))
    /\ \A t \in Threads : WF_vars(SetFullscreenRecord(t))
    /\ WF_vars(RunToggleFullScreen)
    /\ WF_vars(DidEnd)
    /\ WF_vars(RunSetStyleMask)
    /\ WF_vars(RunSetFrameTopLeftPoint)
    /\ WF_vars(RunRestoreDisplayMode)

SpecOps == Init /\ [][NextOps]_vars /\ FairnessOps

\* The mutex events of one thread are well-formed: the guard is never taken
\* while the same thread holds it, and never released when it is not held.
Alternating(s) ==
    \A i \in 1..Len(s) : s[i] = IF i % 2 = 1 THEN "lock" ELSE "unlock"

\* The thread holds no guard after its events.
Released(s) == Len(s) % 2 = 0

AfterSimpleSession(resizable, decorated, always_on_top) ==
    LET mask == InitialMask(decorated, resizable)
    IN  /\ shared = [InitialShared(resizable, FALSE) EXCEPT
                        !.standard_frame = Some(ContentRect("windowed", mask)),
                        !.save_presentation_opts = Some(UserPresentation)]
        /\ decorations = decorated
        /\ window = [styleMask |-> mask,
                     screen |-> 1, level |-> LevelFor(always_on_top),
                     zoomed |-> FALSE,
                     frame |-> ContentRect("windowed", mask), movable |-> TRUE]
        /\ app = UserPresentation
        /\ captured = {}
        /\ displayMode = [m \in Monitors |-> "desktop"]
        /\ queue = << >>
        /\ os = [phase |-> "idle", native |-> FALSE, entering |-> FALSE,
                 requested |-> FALSE]
        /\ pc = [t \in Threads |-> "idle"]
        /\ alive = TRUE

InitAfterSimple ==
    \E resizable \in BOOLEAN, decorated \in BOOLEAN, always_on_top \in BOOLEAN :
        /\ AfterSimpleSession(resizable, decorated, always_on_top)
        /\ arg = [t \in Threads |-> NoFullscreen]
        /\ old = [t \in Threads |-> NoFullscreen]
        /\ log = [t \in Threads |-> << >>]
        /\ call = [t \in Threads |-> NoCall]
        /\ ncalls = 0
        /\ trip = NoTrip
        /\ swap = NoSwap
        /\ hist = NoHist
        /\ locks = [t \in Threads |-> << >>]
        /\ session = NoneOpt

\* set_fullscreen requests only, made after a simple-fullscreen session.
SpecAfterSimple == InitAfterSimple /\ [][NextLive]_vars

\* C34: a switch from Exclusive to Borderless applies the presentation
\* options saved by the Borderless-to-Exclusive switch of the same
\* fullscreen session; when there was none (Exclusive was entered directly
\* from None) it applies the fixed default, never an older stored value.
C34_SessionOptionsAsClaimed ==
    [][\A t \in Threads :
          ( /\ SetFullscreenRecord(t)
            /\ TransitionArm(old[t], arg[t]) = "exclusive_to_borderless" )
          => app' = IF IsSome(session) THEN Unwrap(session)
                    ELSE DefaultFullscreenPresentation]_vars
====
